---- MODULE Spec2Model ----
(***************************************************************************)
(* BioAttend: the student registry (table students), the attendance       *)
(* ledger (table attendance), the database functions of database.py and   *)
(* the request handlers of app.py.                                         *)
(*                                                                         *)
(* Strings typed into a form are sequences of character codes (32 is the   *)
(* space, 97 is "a", 98 is "b"), so that str.strip() and ORDER BY roll_no   *)
(* are computed rather than assumed.  An uploaded file is a number: 0 is a *)
(* file PIL cannot open, i >= 1 is the i-th distinct byte content.         *)
(* CURRENT_TIMESTAMP and datetime.now() read the clock `now`, which ticks  *)
(* twice a calendar day and reads 1 when the server starts.                *)
(***************************************************************************)
EXTENDS Integers, Sequences, FiniteSets, TLC

VARIABLES students, attendance, nextId, nextMarkId, now, pc, loc

vars == <<students, attendance, nextId, nextMarkId, now, pc, loc>>

(* ------------------------------ bounds -------------------------------- *)

\* ids the AUTOINCREMENT counter of students may hand out
MaxId == 2
\* ids the AUTOINCREMENT counter of attendance may hand out
MaxMarkId == 2
\* distinct valid image contents that are uploaded
MaxImages == 2
\* last tick of the clock
MaxTime == 2
\* concurrent request workers of the threaded server
NumProcs == 2

Ids == 1..MaxId
Images == 0..MaxImages
Times == 1..MaxTime
Procs == 1..NumProcs

\* what may be typed into the name field and into the roll_no field
NameFields == { <<>>, <<97>>, <<32, 98>> }
RollFields == { <<>>, <<97, 32>>, <<98>> }
\* the update_iris checkbox of the edit form with the file sent along: the
\* file is read only when the box is ticked
IrisUploads == { <<FALSE, 0>> } \cup { <<TRUE, img>> : img \in Images }

(* --------------------------- values and rows -------------------------- *)

\* Python's None for an omitted string, template or date argument
NoneStr == << -1 >>
NoneTemplate == <<"None", 0>>
NoneDate == -1

\* the row a fetchone() on an empty result stands for (Python's None)
NoRow == [id |-> 0, name |-> <<>>, roll_no |-> <<>>,
          iris_template |-> NoneTemplate, created_at |-> 0]

\* strftime('%Y-%m-%d') of a clock reading
DayOf(t) == t \div 2

Days == { DayOf(t) : t \in Times }

(* ------------------------------ strings ------------------------------- *)

IsSpace(c) == c \in {9, 10, 11, 12, 13, 32}

RECURSIVE lstrip(_)
lstrip(s) ==
    IF s = <<>> THEN <<>>
    ELSE IF IsSpace(Head(s)) THEN lstrip(Tail(s)) ELSE s

RECURSIVE rstrip(_)
rstrip(s) ==
    IF s = <<>> THEN <<>>
    ELSE IF IsSpace(s[Len(s)]) THEN rstrip(SubSeq(s, 1, Len(s) - 1)) ELSE s

\* str.strip()
strip(s) == rstrip(lstrip(s))

\* s < t in the BINARY collation of a TEXT column
RECURSIVE StrLess(_, _)
StrLess(s, t) ==
    IF t = <<>> THEN FALSE
    ELSE IF s = <<>> THEN TRUE
    ELSE IF Head(s) # Head(t) THEN Head(s) < Head(t)
    ELSE StrLess(Tail(s), Tail(t))

(* ------------------------- biometric_utils.py ------------------------- *)

\* Image.open succeeds and the format is a supported one
validate_image_format(img) == img # 0

\* sha256(image bytes).hexdigest(): distinct contents, distinct digests
generate_iris_template(img) == <<"sha256", img>>

match_iris_templates(template1, template2) == template1 = template2

\* [success, iris_template]
process_enrollment_image(img) ==
    IF ~validate_image_format(img)
    THEN [success |-> FALSE, iris_template |-> NoneTemplate]
    ELSE [success |-> TRUE, iris_template |-> generate_iris_template(img)]

\* a scan that stops at the first stored template without comparing it
FirstMatch_NoCompare(uploaded, stored) ==
    IF stored = <<>> THEN NoneTemplate ELSE Head(stored)

\* the first stored template, in list order, that matches the upload
RECURSIVE FirstMatch(_, _)
FirstMatch(uploaded, stored) ==
    IF stored = <<>> THEN NoneTemplate
    ELSE IF match_iris_templates(uploaded, Head(stored)) THEN Head(stored)
    ELSE FirstMatch(uploaded, Tail(stored))

\* [success, match_found, matched_template]
process_verification_image(img, stored_templates) ==
    LET p == process_enrollment_image(img)
        m == FirstMatch(p.iris_template, stored_templates)
    IN IF ~p.success
       THEN [success |-> FALSE, match_found |-> FALSE, matched_template |-> NoneTemplate]
       ELSE [success |-> TRUE, match_found |-> m # NoneTemplate, matched_template |-> m]

(* ----------------------------- database.py ---------------------------- *)

\* fetchone(): the first row of a scan in rowid order, or None
FetchOne(rows) ==
    IF rows = {} THEN NoRow
    ELSE CHOOSE r \in rows : \A q \in rows : r.id <= q.id

get_student_by_roll_no(S, roll_no) ==
    FetchOne({ s \in S : s.roll_no = roll_no })

\* the lookup with a WHERE clause that matches no row
get_student_by_iris_template_Miss(S, iris_template) ==
    FetchOne({ s \in S : FALSE })

get_student_by_iris_template(S, iris_template) ==
    FetchOne({ s \in S : s.iris_template = iris_template })

get_student_by_id(S, student_id) ==
    FetchOne({ s \in S : s.id = student_id })

\* the rows of S as a sequence ordered by roll_no (ties by rowid)
RECURSIVE OrderByRollNo(_)
OrderByRollNo(S) ==
    IF S = {} THEN <<>>
    ELSE LET f == CHOOSE r \in S : \A q \in S :
                      \/ StrLess(r.roll_no, q.roll_no)
                      \/ (r.roll_no = q.roll_no /\ r.id <= q.id)
         IN <<f>> \o OrderByRollNo(S \ {f})

get_all_students(S) == OrderByRollNo(S)

\* the students table declared without UNIQUE on roll_no
RollNoUniqueOk_NoConstraint(S, self, roll_no) == TRUE

\* UNIQUE on students.roll_no: may a row with this roll_no be written,
\* the row with id `self` (0: none) being the one replaced?
RollNoUniqueOk(S, self, roll_no) ==
    \A s \in S : s.id # self => s.roll_no # roll_no

\* [students, nextId, ret]: ret is the new id, or 0 for None
add_student(S, nid, t, name, roll_no, iris_template) ==
    IF RollNoUniqueOk(S, 0, roll_no)
    THEN [students |-> S \cup {[id |-> nid, name |-> name, roll_no |-> roll_no,
                                iris_template |-> iris_template, created_at |-> t]},
          nextId |-> nid + 1, ret |-> nid]
    ELSE [students |-> S, nextId |-> nid, ret |-> 0]

\* UNIQUE(student_id, date) on attendance
AttendanceUniqueOk(A, student_id, date) ==
    ~\E m \in A : m.student_id = student_id /\ m.date = date

\* INSERT OR REPLACE in place of INSERT
mark_attendance_Replace(A, mid, t, student_id, date) ==
    LET d == IF date = NoneDate THEN DayOf(t) ELSE date
    IN [attendance |->
            { m \in A : ~(m.student_id = student_id /\ m.date = d) }
            \cup {[id |-> mid, student_id |-> student_id, date |-> d,
                    status |-> "Present", timestamp |-> t]},
        nextMarkId |-> mid + 1, ret |-> TRUE]

\* [attendance, nextMarkId, ret]
mark_attendance(A, mid, t, student_id, date) ==
    LET d == IF date = NoneDate THEN DayOf(t) ELSE date
    IN IF AttendanceUniqueOk(A, student_id, d)
       THEN [attendance |-> A \cup {[id |-> mid, student_id |-> student_id, date |-> d,
                                      status |-> "Present", timestamp |-> t]},
             nextMarkId |-> mid + 1, ret |-> TRUE]
       ELSE [attendance |-> A, nextMarkId |-> mid, ret |-> FALSE]

\* the UPDATE written with the arguments as passed, None included
UpdateStatement_NoDefaults(S, current, student_id, name, roll_no, iris_template) ==
    LET hit == { s \in S : s.id = student_id }
    IN IF hit = {}
       THEN [students |-> S, ok |-> FALSE, message |-> "Student not found"]
       ELSE IF ~RollNoUniqueOk(S, student_id, roll_no)
       THEN [students |-> S, ok |-> FALSE, message |-> "Roll number already exists"]
       ELSE [students |->
                (S \ hit) \cup { [s EXCEPT !.name = name, !.roll_no = roll_no,
                                           !.iris_template = iris_template] : s \in hit },
             ok |-> TRUE, message |-> "Student updated successfully"]

\* the name written and committed by a statement of its own, before the
\* statement that writes roll_no and may fail
UpdateStatement_PartialWrite(S, current, student_id, name, roll_no, iris_template) ==
    LET new_name == IF name # NoneStr THEN name ELSE current.name
        new_roll_no == IF roll_no # NoneStr THEN roll_no ELSE current.roll_no
        new_iris_template == IF iris_template # NoneTemplate THEN iris_template
                             ELSE current.iris_template
        hit == { s \in S : s.id = student_id }
    IN IF hit = {}
       THEN [students |-> S, ok |-> FALSE, message |-> "Student not found"]
       ELSE IF ~RollNoUniqueOk(S, student_id, new_roll_no)
       THEN [students |-> (S \ hit) \cup { [s EXCEPT !.name = new_name] : s \in hit },
             ok |-> FALSE, message |-> "Roll number already exists"]
       ELSE [students |->
                (S \ hit) \cup { [s EXCEPT !.name = new_name, !.roll_no = new_roll_no,
                                           !.iris_template = new_iris_template] : s \in hit },
             ok |-> TRUE, message |-> "Student updated successfully"]

\* the UPDATE statement of update_student and what follows it, `current`
\* being the row read before it: [students, ok, message]
UpdateStatement(S, current, student_id, name, roll_no, iris_template) ==
    LET new_name == IF name # NoneStr THEN name ELSE current.name
        new_roll_no == IF roll_no # NoneStr THEN roll_no ELSE current.roll_no
        new_iris_template == IF iris_template # NoneTemplate THEN iris_template
                             ELSE current.iris_template
        hit == { s \in S : s.id = student_id }
    IN IF hit = {}
       THEN [students |-> S, ok |-> FALSE, message |-> "Student not found"]
       ELSE IF ~RollNoUniqueOk(S, student_id, new_roll_no)
       THEN [students |-> S, ok |-> FALSE, message |-> "Roll number already exists"]
       ELSE [students |->
                (S \ hit) \cup { [s EXCEPT !.name = new_name, !.roll_no = new_roll_no,
                                           !.iris_template = new_iris_template] : s \in hit },
             ok |-> TRUE, message |-> "Student updated successfully"]

\* [students, ok, message]
update_student(S, student_id, name, roll_no, iris_template) ==
    LET current_student == get_student_by_id(S, student_id)
    IN IF current_student = NoRow
       THEN [students |-> S, ok |-> FALSE, message |-> "Student not found"]
       ELSE UpdateStatement(S, current_student, student_id, name, roll_no, iris_template)

\* DELETE FROM attendance without its WHERE clause
DeleteStatements_AllMarks(S, A, student_id) ==
    LET hit == { s \in S : s.id = student_id }
    IN [students |-> S \ hit,
        attendance |-> {},
        ok |-> hit # {},
        message |-> IF hit # {} THEN "deleted successfully"
                    ELSE "Failed to delete student"]

\* only the students row deleted
DeleteStatements_NoCascade(S, A, student_id) ==
    LET hit == { s \in S : s.id = student_id }
    IN [students |-> S \ hit,
        attendance |-> A,
        ok |-> hit # {},
        message |-> IF hit # {} THEN "deleted successfully"
                    ELSE "Failed to delete student"]

\* the two DELETE statements and the commit: one transaction
DeleteStatements(S, A, student_id) ==
    LET hit == { s \in S : s.id = student_id }
    IN [students |-> S \ hit,
        attendance |-> { m \in A : m.student_id # student_id },
        ok |-> hit # {},
        message |-> IF hit # {} THEN "deleted successfully"
                    ELSE "Failed to delete student"]

\* [students, attendance, ok, message]
delete_student(S, A, student_id) ==
    IF get_student_by_id(S, student_id) = NoRow
    THEN [students |-> S, attendance |-> A, ok |-> FALSE, message |-> "Student not found"]
    ELSE DeleteStatements(S, A, student_id)

\* the rows of a result set in rowid order
RECURSIVE RowsById(_)
RowsById(rows) ==
    IF rows = {} THEN <<>>
    ELSE LET r == CHOOSE x \in rows : \A y \in rows : x.id <= y.id
         IN <<r>> \o RowsById(rows \ {r})

\* MIN(date) and MAX(date) accumulated over the rows; NULL over no rows. A
\* date is stored as zero-padded 'YYYY-MM-DD' text, which compares as the
\* day it names
RECURSIVE MinDate(_)
MinDate(rows) ==
    IF rows = <<>> THEN NoneDate
    ELSE LET rest == MinDate(Tail(rows))
         IN IF rest = NoneDate \/ Head(rows).date < rest THEN Head(rows).date ELSE rest

RECURSIVE MaxDate(_)
MaxDate(rows) ==
    IF rows = <<>> THEN NoneDate
    ELSE LET rest == MaxDate(Tail(rows))
         IN IF rest = NoneDate \/ Head(rows).date > rest THEN Head(rows).date ELSE rest

\* first and last taken from the rows as they were inserted
get_student_stats_InsertionOrder(A, student_id) ==
    LET rows == RowsById({ m \in A : m.student_id = student_id })
    IN [total_attendance |-> Len(rows),
        first_attendance |-> IF rows = <<>> THEN NoneDate ELSE rows[1].date,
        last_attendance |-> IF rows = <<>> THEN NoneDate ELSE rows[Len(rows)].date]

\* [total_attendance, first_attendance, last_attendance]
get_student_stats(A, student_id) ==
    LET rows == RowsById({ m \in A : m.student_id = student_id })
    IN [total_attendance |-> Len(rows),
        first_attendance |-> MinDate(rows),
        last_attendance |-> MaxDate(rows)]

\* rows left in the order they were inserted
OrderByDateDesc_Unordered(rows) == RowsById(rows)

\* ORDER BY date DESC; rows of equal date stay in rowid order
RECURSIVE OrderByDateDesc(_)
OrderByDateDesc(rows) ==
    IF rows = {} THEN <<>>
    ELSE LET r == CHOOSE x \in rows :
                     \A y \in rows : \/ x.date > y.date
                                      \/ (x.date = y.date /\ x.id <= y.id)
         IN <<r>> \o OrderByDateDesc(rows \ {r})

\* LIMIT ?; a negative limit is no limit
Limit(seq, limit) ==
    IF limit < 0 \/ limit >= Len(seq) THEN seq ELSE SubSeq(seq, 1, limit)

\* the rows [date, status, timestamp] of a subject, newest date first
get_student_attendance_history(A, student_id, limit) ==
    LET rows == Limit(OrderByDateDesc({ m \in A : m.student_id = student_id }), limit)
    IN [i \in 1..Len(rows) |->
            [date |-> rows[i].date, status |-> rows[i].status,
             timestamp |-> rows[i].timestamp]]

\* FROM attendance a LEFT JOIN students s: marks of no student listed too
JoinStudents_KeepUnmatched(S, A, date) ==
    { [name |-> s.name, roll_no |-> s.roll_no, status |-> a.status,
       timestamp |-> a.timestamp, rowid |-> a.id] :
         <<a, s>> \in { p \in A \X S : p[1].date = date /\ p[1].student_id = p[2].id } }
    \cup { [name |-> NoneStr, roll_no |-> NoneStr, status |-> a.status,
            timestamp |-> a.timestamp, rowid |-> a.id] :
              a \in { m \in A : m.date = date /\ \A s \in S : s.id # m.student_id } }

\* FROM attendance a JOIN students s ON a.student_id = s.id WHERE a.date = ?
JoinStudents(S, A, date) ==
    { [name |-> p[2].name, roll_no |-> p[2].roll_no, status |-> p[1].status,
       timestamp |-> p[1].timestamp, rowid |-> p[1].id] :
         p \in { q \in A \X S : q[1].date = date /\ q[1].student_id = q[2].id } }

\* ORDER BY s.roll_no over the joined rows (ties by the mark's rowid)
RECURSIVE OrderJoinedByRollNo(_)
OrderJoinedByRollNo(rows) ==
    IF rows = {} THEN <<>>
    ELSE LET f == CHOOSE r \in rows : \A q \in rows :
                      \/ StrLess(r.roll_no, q.roll_no)
                      \/ (r.roll_no = q.roll_no /\ r.rowid <= q.rowid)
         IN <<f>> \o OrderJoinedByRollNo(rows \ {f})

\* the rows [name, roll_no, status, timestamp] of a date
get_attendance_by_date(S, A, date) ==
    LET rows == OrderJoinedByRollNo(JoinStudents(S, A, date))
    IN [i \in 1..Len(rows) |->
            [name |-> rows[i].name, roll_no |-> rows[i].roll_no,
             status |-> rows[i].status, timestamp |-> rows[i].timestamp]]

(* ------------------------ app.py, one request at a time --------------- *)

Resp(op, ok, msg, id) == [op |-> op, ok |-> ok, msg |-> msg, id |-> id]

\* the state a handler leaves and the response it renders
Out(S, A, nid, mid, r) ==
    [students |-> S, attendance |-> A, nextId |-> nid, nextMarkId |-> mid, resp |-> r]

\* POST /enroll
enroll(S, A, nid, mid, t, name_field, roll_field, img) ==
    LET name == strip(name_field)
        roll_no == strip(roll_field)
        result == process_enrollment_image(img)
        iris_template == result.iris_template
        r == add_student(S, nid, t, name, roll_no, iris_template)
    IN IF name = <<>> \/ roll_no = <<>>
       THEN Out(S, A, nid, mid, Resp("enroll", FALSE, "Please fill in all required fields.", 0))
       ELSE IF ~result.success
       THEN Out(S, A, nid, mid, Resp("enroll", FALSE, "Image processing error", 0))
       ELSE IF get_student_by_roll_no(S, roll_no) # NoRow
       THEN Out(S, A, nid, mid, Resp("enroll", FALSE, "roll number is already enrolled", 0))
       ELSE IF get_student_by_iris_template(S, iris_template) # NoRow
       THEN Out(S, A, nid, mid, Resp("enroll", FALSE, "iris pattern is already registered", 0))
       ELSE IF r.ret # 0
       THEN Out(r.students, A, r.nextId, mid, Resp("enroll", TRUE, "enrolled successfully", r.ret))
       ELSE Out(S, A, nid, mid, Resp("enroll", FALSE, "Enrollment failed", 0))

\* the template list verify builds from get_all_students()
RECURSIVE StoredTemplates(_, _)
StoredTemplates(S, list) ==
    IF list = <<>> THEN <<>>
    ELSE LET student_data == get_student_by_roll_no(S, Head(list).roll_no)
         IN (IF student_data # NoRow THEN <<student_data.iris_template>> ELSE <<>>)
            \o StoredTemplates(S, Tail(list))

\* POST /verify
verify(S, A, nid, mid, t, img) ==
    LET stored_templates == StoredTemplates(S, get_all_students(S))
        result == process_verification_image(img, stored_templates)
        student == get_student_by_iris_template(S, result.matched_template)
        m == mark_attendance(A, mid, t, student.id, DayOf(t))
    IN IF ~result.success
       THEN Out(S, A, nid, mid, Resp("verify", FALSE, "Image processing error", 0))
       ELSE IF ~result.match_found
       THEN Out(S, A, nid, mid, Resp("verify", FALSE, "Student not recognized", 0))
       ELSE IF student = NoRow
       THEN Out(S, A, nid, mid, Resp("verify", FALSE, "Student data not found", 0))
       ELSE IF m.ret
       THEN Out(S, m.attendance, nid, m.nextMarkId, Resp("verify", TRUE, "Attendance marked", student.id))
       ELSE Out(S, A, nid, mid, Resp("verify", TRUE, "Attendance already marked", student.id))

\* the iris check of edit_student without "and existing_iris['id'] != student_id"
edit_student_NoSelfExclusion(S, A, nid, mid, student_id, name_field, roll_field, update_iris, img) ==
    LET student == get_student_by_id(S, student_id)
        name == strip(name_field)
        roll_no == strip(roll_field)
        result == process_enrollment_image(img)
        iris_template == IF update_iris THEN result.iris_template ELSE NoneTemplate
        existing_iris == get_student_by_iris_template(S, iris_template)
        u == update_student(S, student_id, name, roll_no, iris_template)
    IN IF student = NoRow
       THEN Out(S, A, nid, mid, Resp("edit", FALSE, "Student not found.", 0))
       ELSE IF name = <<>> \/ roll_no = <<>>
       THEN Out(S, A, nid, mid, Resp("edit", FALSE, "Please fill in all required fields.", 0))
       ELSE IF update_iris /\ ~result.success
       THEN Out(S, A, nid, mid, Resp("edit", FALSE, "Image processing error", 0))
       ELSE IF update_iris /\ existing_iris # NoRow
       THEN Out(S, A, nid, mid, Resp("edit", FALSE, "iris pattern is already registered", 0))
       ELSE Out(u.students, A, nid, mid, Resp("edit", u.ok, u.message, student_id))

\* POST /edit-student/<student_id>
edit_student(S, A, nid, mid, student_id, name_field, roll_field, update_iris, img) ==
    LET student == get_student_by_id(S, student_id)
        name == strip(name_field)
        roll_no == strip(roll_field)
        result == process_enrollment_image(img)
        iris_template == IF update_iris THEN result.iris_template ELSE NoneTemplate
        existing_iris == get_student_by_iris_template(S, iris_template)
        u == update_student(S, student_id, name, roll_no, iris_template)
    IN IF student = NoRow
       THEN Out(S, A, nid, mid, Resp("edit", FALSE, "Student not found.", 0))
       ELSE IF name = <<>> \/ roll_no = <<>>
       THEN Out(S, A, nid, mid, Resp("edit", FALSE, "Please fill in all required fields.", 0))
       ELSE IF update_iris /\ ~result.success
       THEN Out(S, A, nid, mid, Resp("edit", FALSE, "Image processing error", 0))
       ELSE IF update_iris /\ existing_iris # NoRow /\ existing_iris.id # student_id
       THEN Out(S, A, nid, mid, Resp("edit", FALSE, "iris pattern is already registered", 0))
       ELSE Out(u.students, A, nid, mid, Resp("edit", u.ok, u.message, student_id))

\* POST /delete-student/<student_id>
delete_student_route(S, A, nid, mid, student_id) ==
    LET d == delete_student(S, A, student_id)
    IN Out(d.students, d.attendance, nid, mid, Resp("delete", d.ok, d.message, student_id))

\* GET /reports?date=...; the page's records and counters
reports(S, A, t, date_arg) ==
    LET today == DayOf(t)
        selected_date == IF date_arg = NoneDate THEN today ELSE date_arg
        attendance_records == get_attendance_by_date(S, A, selected_date)
        all_students == get_all_students(S)
        total_students == Len(all_students)
        present_today == Len(attendance_records)
        absent_today == total_students - present_today
    IN [attendance_records |-> attendance_records, selected_date |-> selected_date,
        total_students |-> total_students, present_today |-> present_today,
        absent_today |-> absent_today]

(* ------------------------------ actions ------------------------------- *)

\* a worker that is handling no request
NoLoc == [op |-> "none"]

Init ==
    /\ students = {}
    /\ attendance = {}
    /\ nextId = 1
    /\ nextMarkId = 1
    /\ now = 1
    /\ pc = [p \in Procs |-> "idle"]
    /\ loc = [p \in Procs |-> NoLoc]

\* a handler ran to completion and rendered out.resp; the id counter stays
\* within MaxId and the mark counter within MaxMarkId
Commit(out) ==
    /\ out.nextId <= MaxId + 1
    /\ out.nextMarkId <= MaxMarkId + 1
    /\ students' = out.students
    /\ attendance' = out.attendance
    /\ nextId' = out.nextId
    /\ nextMarkId' = out.nextMarkId
    /\ UNCHANGED <<now, pc, loc>>

Enroll(name_field, roll_field, img) ==
    Commit(enroll(students, attendance, nextId, nextMarkId, now, name_field, roll_field, img))

Verify(img) ==
    Commit(verify(students, attendance, nextId, nextMarkId, now, img))

EditStudent(student_id, name_field, roll_field, update_iris, img) ==
    Commit(edit_student(students, attendance, nextId, nextMarkId, student_id,
                        name_field, roll_field, update_iris, img))

DeleteStudentRoute(student_id) ==
    Commit(delete_student_route(students, attendance, nextId, nextMarkId, student_id))

\* time passes
Tick ==
    /\ now < MaxTime
    /\ now' = now + 1
    /\ UNCHANGED <<students, attendance, nextId, nextMarkId, pc, loc>>

Next ==
    \/ \E n \in NameFields, r \in RollFields, img \in Images : Enroll(n, r, img)
    \/ \E img \in Images : Verify(img)
    \/ \E id \in Ids, n \in NameFields, r \in RollFields, u \in IrisUploads :
          EditStudent(id, n, r, u[1], u[2])
    \/ \E id \in Ids : DeleteStudentRoute(id)
    \/ Tick

Spec == Init /\ [][Next]_vars

(* ------------- app.py, requests handled by concurrent workers --------- *)
(* Every database function opens its own connection; a statement with its  *)
(* commit is one step, and so are the two DELETE statements of             *)
(* delete_student, which share a transaction.  Between two steps of a       *)
(* request any other worker may run.                                       *)

\* what the concurrent workers are sent
ConcNames == { <<97>> }
ConcRolls == { <<97>>, <<98>> }
ConcImages == Images \ {0}

Goto(p, label, l) ==
    /\ pc' = [pc EXCEPT ![p] = label]
    /\ loc' = [loc EXCEPT ![p] = l]

Done(p) == Goto(p, "idle", NoLoc)

\* enroll, up to the first query: the form and the image are valid
StartEnroll(p, name, roll_no, img) ==
    /\ pc[p] = "idle"
    /\ Goto(p, "enroll_check_roll_no",
            [op |-> "enroll", name |-> strip(name), roll_no |-> strip(roll_no),
             iris_template |-> process_enrollment_image(img).iris_template])
    /\ UNCHANGED <<students, attendance, nextId, nextMarkId, now>>

\* existing_student = get_student_by_roll_no(roll_no)
EnrollCheckRollNo(p) ==
    /\ pc[p] = "enroll_check_roll_no"
    /\ IF get_student_by_roll_no(students, loc[p].roll_no) # NoRow
       THEN Done(p)
       ELSE Goto(p, "enroll_check_iris", loc[p])
    /\ UNCHANGED <<students, attendance, nextId, nextMarkId, now>>

\* existing_iris = get_student_by_iris_template(iris_template)
EnrollCheckIris(p) ==
    /\ pc[p] = "enroll_check_iris"
    /\ IF get_student_by_iris_template(students, loc[p].iris_template) # NoRow
       THEN Done(p)
       ELSE Goto(p, "enroll_add_student", loc[p])
    /\ UNCHANGED <<students, attendance, nextId, nextMarkId, now>>

\* student_id = add_student(name, roll_no, iris_template)
EnrollAddStudent(p) ==
    /\ pc[p] = "enroll_add_student"
    /\ LET r == add_student(students, nextId, now, loc[p].name, loc[p].roll_no,
                            loc[p].iris_template)
       IN /\ r.nextId <= MaxId + 1
          /\ students' = r.students
          /\ nextId' = r.nextId
    /\ Done(p)
    /\ UNCHANGED <<attendance, nextMarkId, now>>

\* verify, up to students = get_all_students()
StartVerify(p, img) ==
    /\ pc[p] = "idle"
    /\ Goto(p, "verify_templates",
            [op |-> "verify", img |-> img, list |-> get_all_students(students),
             stored_templates |-> <<>>])
    /\ UNCHANGED <<students, attendance, nextId, nextMarkId, now>>

\* one turn of the loop: student_data = get_student_by_roll_no(...); after the
\* last one, process_verification_image
VerifyTemplates(p) ==
    /\ pc[p] = "verify_templates"
    /\ LET l == loc[p]
           result == process_verification_image(l.img, l.stored_templates)
       IN IF l.list # <<>>
          THEN Goto(p, "verify_templates",
                    [l EXCEPT !.list = Tail(l.list),
                              !.stored_templates =
                                  l.stored_templates \o StoredTemplates(students, <<Head(l.list)>>)])
          ELSE IF result.success /\ result.match_found
          THEN Goto(p, "verify_lookup",
                    [op |-> "verify", matched_template |-> result.matched_template])
          ELSE Done(p)
    /\ UNCHANGED <<students, attendance, nextId, nextMarkId, now>>

\* student = get_student_by_iris_template(matched_template)
VerifyLookup(p) ==
    /\ pc[p] = "verify_lookup"
    /\ LET student == get_student_by_iris_template(students, loc[p].matched_template)
       IN IF student = NoRow
          THEN Done(p)
          ELSE Goto(p, "verify_mark", [op |-> "verify", student_id |-> student.id])
    /\ UNCHANGED <<students, attendance, nextId, nextMarkId, now>>

\* attendance_marked = mark_attendance(student['id'], today)
VerifyMark(p) ==
    /\ pc[p] = "verify_mark"
    /\ LET m == mark_attendance(attendance, nextMarkId, now, loc[p].student_id, DayOf(now))
       IN /\ m.nextMarkId <= MaxMarkId + 1
          /\ attendance' = m.attendance
          /\ nextMarkId' = m.nextMarkId
    /\ Done(p)
    /\ UNCHANGED <<students, nextId, now>>

\* edit_student, up to student = get_student_by_id(student_id)
StartEdit(p, student_id, name, roll_no, update_iris, img) ==
    /\ pc[p] = "idle"
    /\ LET l == [op |-> "edit", student_id |-> student_id, name |-> strip(name),
                 roll_no |-> strip(roll_no),
                 iris_template |-> IF update_iris
                                   THEN process_enrollment_image(img).iris_template
                                   ELSE NoneTemplate]
       IN IF get_student_by_id(students, student_id) = NoRow
          THEN Done(p)
          ELSE IF update_iris
          THEN Goto(p, "edit_check_iris", l)
          ELSE Goto(p, "edit_current", l)
    /\ UNCHANGED <<students, attendance, nextId, nextMarkId, now>>

\* existing_iris = get_student_by_iris_template(iris_template)
EditCheckIris(p) ==
    /\ pc[p] = "edit_check_iris"
    /\ LET existing_iris == get_student_by_iris_template(students, loc[p].iris_template)
       IN IF existing_iris # NoRow /\ existing_iris.id # loc[p].student_id
          THEN Done(p)
          ELSE Goto(p, "edit_current", loc[p])
    /\ UNCHANGED <<students, attendance, nextId, nextMarkId, now>>

\* update_student: current_student = get_student_by_id(student_id)
EditCurrent(p) ==
    /\ pc[p] = "edit_current"
    /\ LET current_student == get_student_by_id(students, loc[p].student_id)
       IN IF current_student = NoRow
          THEN Done(p)
          ELSE Goto(p, "edit_update", [loc[p] EXCEPT !.op = "update"] @@
                                      [current |-> current_student])
    /\ UNCHANGED <<students, attendance, nextId, nextMarkId, now>>

\* update_student: the UPDATE and its commit
EditUpdate(p) ==
    /\ pc[p] = "edit_update"
    /\ LET l == loc[p]
           u == UpdateStatement(students, l.current, l.student_id, l.name, l.roll_no,
                                l.iris_template)
       IN students' = u.students
    /\ Done(p)
    /\ UNCHANGED <<attendance, nextId, nextMarkId, now>>

\* delete_student: student = get_student_by_id(student_id)
StartDelete(p, student_id) ==
    /\ pc[p] = "idle"
    /\ IF get_student_by_id(students, student_id) = NoRow
       THEN Done(p)
       ELSE Goto(p, "delete_rows", [op |-> "delete", student_id |-> student_id])
    /\ UNCHANGED <<students, attendance, nextId, nextMarkId, now>>

\* delete_student: both DELETE statements and the commit
DeleteRows(p) ==
    /\ pc[p] = "delete_rows"
    /\ LET d == DeleteStatements(students, attendance, loc[p].student_id)
       IN /\ students' = d.students
          /\ attendance' = d.attendance
    /\ Done(p)
    /\ UNCHANGED <<nextId, nextMarkId, now>>

NextConc ==
    \/ Tick
    \/ \E p \in Procs :
        \/ \E n \in ConcNames, r \in ConcRolls, img \in ConcImages : StartEnroll(p, n, r, img)
        \/ EnrollCheckRollNo(p)
        \/ EnrollCheckIris(p)
        \/ EnrollAddStudent(p)
        \/ \E img \in ConcImages : StartVerify(p, img)
        \/ VerifyTemplates(p)
        \/ VerifyLookup(p)
        \/ VerifyMark(p)
        \/ \E id \in Ids, n \in ConcNames, r \in ConcRolls, img \in ConcImages :
              \/ StartEdit(p, id, n, r, TRUE, img)
              \/ img = 1 /\ StartEdit(p, id, n, r, FALSE, img)
        \/ EditCheckIris(p)
        \/ EditCurrent(p)
        \/ EditUpdate(p)
        \/ \E id \in Ids : StartDelete(p, id)
        \/ DeleteRows(p)

SpecConc == Init /\ [][NextConc]_vars

(* ------------------ database.py called directly ----------------------- *)

\* the functions of database.py called by a script or a shell, one call at a
\* time, with any student_id and any date

DbNames == { <<97>> }
DbRolls == { <<97>>, <<98>> }
DbImages == { 1 }

AddStudentCall(name, roll_no, iris_template) ==
    LET r == add_student(students, nextId, now, name, roll_no, iris_template)
    IN Commit(Out(r.students, attendance, r.nextId, nextMarkId,
                  Resp("add_student", r.ret # 0, "", r.ret)))

MarkAttendanceCall(student_id, date) ==
    LET r == mark_attendance(attendance, nextMarkId, now, student_id, date)
    IN Commit(Out(students, r.attendance, nextId, r.nextMarkId,
                  Resp("mark_attendance", r.ret, "", student_id)))

DeleteStudentCall(student_id) ==
    LET r == delete_student(students, attendance, student_id)
    IN Commit(Out(r.students, r.attendance, nextId, nextMarkId,
                  Resp("delete_student", r.ok, r.message, student_id)))

NextDb ==
    \/ \E n \in DbNames, r \in DbRolls, img \in DbImages :
          AddStudentCall(n, r, generate_iris_template(img))
    \/ \E id \in Ids, date \in Days \cup {NoneDate} : MarkAttendanceCall(id, date)
    \/ \E id \in Ids : DeleteStudentCall(id)
    \/ Tick

SpecDb == Init /\ [][NextDb]_vars

(* ============================== properties ============================ *)

\* well-formed form input: fields that are not blank, a file PIL can open
ValidNames == { f \in NameFields : strip(f) # <<>> }
ValidRolls == { f \in RollFields : strip(f) # <<>> }
ValidImages == { img \in Images : validate_image_format(img) }
ValidIrisUploads == { u \in IrisUploads : u[1] => validate_image_format(u[2]) }

\* limit=30 of get_student_attendance_history
DefaultLimit == 30

\* arguments a caller may pass to database.py
NameArgs == { strip(f) : f \in ValidNames }
RollArgs == { strip(f) : f \in ValidRolls }
TemplateArgs == { generate_iris_template(img) : img \in ValidImages }
LimitArgs == 0..MaxMarkId \cup {DefaultLimit}

EnrolledIds(S) == { s.id : s \in S }
MarksOf(A, student_id) == { m \in A : m.student_id = student_id }

(* C1: with requests handled one at a time, no two enrolled subjects share *)
(* a roll_no and no two share an iris_template.                            *)
C1_UniqueRollNoAndTemplate ==
    \A s1 \in students, s2 \in students :
        s1 # s2 => /\ s1.id # s2.id
                   /\ s1.roll_no # s2.roll_no
                   /\ s1.iris_template # s2.iris_template

\* two subjects are enrolled at once
C1_Witness ==
    \E s1 \in students, s2 \in students : s1.id # s2.id

(* C2: a well-formed enrollment is rejected when an enrolled subject has   *)
(* the same roll_no or the same template (as a duplicate roll number when  *)
(* only the roll_no collides, as a duplicate iris when only the template   *)
(* collides) and changes nothing; otherwise it succeeds and adds exactly   *)
(* one subject, holding the submitted values under an id never used before.*)
C2_EnrollRejectsDuplicates ==
    /\ \A s \in students : s.id < nextId
    /\ \A n \in ValidNames, r \in ValidRolls, img \in ValidImages :
        LET out == enroll(students, attendance, nextId, nextMarkId, now, n, r, img)
            roll_no == strip(r)
            template == generate_iris_template(img)
            dupRoll == \E s \in students : s.roll_no = roll_no
            dupIris == \E s \in students : s.iris_template = template
        IN /\ (dupRoll \/ dupIris) =>
                /\ ~out.resp.ok
                /\ out.students = students
           /\ (dupRoll /\ ~dupIris) => out.resp.msg = "roll number is already enrolled"
           /\ (dupIris /\ ~dupRoll) => out.resp.msg = "iris pattern is already registered"
           /\ ~(dupRoll \/ dupIris) =>
                /\ out.resp.ok
                /\ Cardinality(out.students) = Cardinality(students) + 1
                /\ \E new \in out.students :
                      /\ out.students = students \cup {new}
                      /\ new.id \notin EnrolledIds(students)
                      /\ new.id >= nextId
                      /\ new.id = out.resp.id
                      /\ new.name = strip(n)
                      /\ new.roll_no = roll_no
                      /\ new.iris_template = template

\* a subject is enrolled, and an enrollment under another roll_no with that
\* subject's image is turned down as a duplicate iris
C2_Witness ==
    \E s \in students, n \in ValidNames, r \in ValidRolls, img \in ValidImages :
        /\ strip(r) # s.roll_no
        /\ generate_iris_template(img) = s.iris_template
        /\ enroll(students, attendance, nextId, nextMarkId, now, n, r, img).resp.msg
              = "iris pattern is already registered"

(* C3: the ledger holds at most one mark per (student_id, date); a call of *)
(* mark_attendance for a key with no mark returns True and adds exactly    *)
(* one mark, and a call for a key that has a mark (also the call repeated  *)
(* right after the first, at any later time) returns False and leaves the  *)
(* ledger as it was.                                                       *)
C3_MarkOncePerDay ==
    /\ \A m1 \in attendance, m2 \in attendance :
          (m1.student_id = m2.student_id /\ m1.date = m2.date) => m1 = m2
    /\ \A id \in Ids, date \in Days \cup {NoneDate} :
        LET first == mark_attendance(attendance, nextMarkId, now, id, date)
            day == IF date = NoneDate THEN DayOf(now) ELSE date
            marked == \E m \in attendance : m.student_id = id /\ m.date = day
        IN IF marked
           THEN /\ ~first.ret
                /\ first.attendance = attendance
           ELSE /\ first.ret
                /\ attendance \subseteq first.attendance
                /\ Cardinality(first.attendance) = Cardinality(attendance) + 1
                /\ Cardinality({ m \in first.attendance :
                                    m.student_id = id /\ m.date = day }) = 1
                /\ \A t \in Times : t >= now =>
                      LET second == mark_attendance(first.attendance, first.nextMarkId,
                                                    t, id, day)
                      IN /\ ~second.ret
                         /\ second.attendance = first.attendance

\* a mark was recorded, and marking its key again is turned down
C3_Witness ==
    \E m \in attendance :
        ~mark_attendance(attendance, nextMarkId, now, m.student_id, m.date).ret

(* C4: in every step, a mark whose subject is still enrolled afterwards is *)
(* kept as it is (status and timestamp included); a mark goes away only    *)
(* together with its subject; a new mark is "Present"; and a step that     *)
(* changes a subject's name, roll_no or template changes no mark.          *)
C4_MarksKept ==
    [][ /\ \A m \in attendance :
              /\ m.student_id \in EnrolledIds(students') => m \in attendance'
              /\ m \notin attendance' => m.student_id \in EnrolledIds(students)
        /\ \A m \in attendance' \ attendance : m.status = "Present"
        /\ (\E s \in students, s2 \in students' : s.id = s2.id /\ s # s2)
              => attendance' = attendance
      ]_vars

\* a subject was marked, and another subject was enrolled on a later day
C4_Witness ==
    \E m \in attendance, s \in students :
        /\ m.student_id \in EnrolledIds(students)
        /\ s.id # m.student_id
        /\ s.created_at > m.timestamp

(* C5: delete_student on an enrolled subject succeeds, after which the     *)
(* subject is found neither by id nor by roll_no nor by template, no mark  *)
(* of it is left, and every other subject and mark is as before; on a      *)
(* subject that is not enrolled it fails and removes nothing.              *)
C5_DeleteCascades ==
    \A id \in Ids :
        LET d == delete_student(students, attendance, id)
            s == get_student_by_id(students, id)
        IN /\ d.ok <=> s # NoRow
           /\ d.ok =>
                /\ get_student_by_id(d.students, id) = NoRow
                /\ get_student_by_roll_no(d.students, s.roll_no) = NoRow
                /\ get_student_by_iris_template(d.students, s.iris_template) = NoRow
                /\ MarksOf(d.attendance, id) = {}
                /\ d.students = students \ {s}
                /\ d.attendance = attendance \ MarksOf(attendance, id)
           /\ ~d.ok =>
                /\ d.students = students
                /\ d.attendance = attendance

\* marks were recorded and every subject that had one has been deleted since
C5_Witness ==
    /\ nextMarkId > 1
    /\ attendance = {}
    /\ students # {}

(* C6: also when the steps of concurrent requests interleave, every mark   *)
(* of the ledger refers to a subject that is enrolled.                     *)
C6_MarksReferToEnrolled ==
    \A m \in attendance : m.student_id \in EnrolledIds(students)

(* C7: also when the steps of concurrent requests interleave, no two       *)
(* subjects share a roll_no, no two share a template, and no two marks     *)
(* share (student_id, date).                                               *)
C7_UniquenessUnderInterleaving ==
    /\ \A s1 \in students, s2 \in students :
          s1 # s2 => /\ s1.roll_no # s2.roll_no
                     /\ s1.iris_template # s2.iris_template
    /\ \A m1 \in attendance, m2 \in attendance :
          (m1.student_id = m2.student_id /\ m1.date = m2.date) => m1 = m2

(* C8: update_student on an enrolled subject keeps every omitted field,    *)
(* writes every field that is passed, never changes id or created_at,      *)
(* leaves every other subject as it was, fails without changing anything   *)
(* or succeeds, and succeeds when roll_no and template are the subject's   *)
(* own; the edit handler built on it changes no mark.                      *)
C8_PartialUpdate ==
    \A s \in students :
        /\ \A name \in NameArgs \cup {NoneStr}, roll_no \in RollArgs \cup {NoneStr},
              template \in TemplateArgs \cup {NoneTemplate} :
            LET u == update_student(students, s.id, name, roll_no, template)
            IN /\ ~u.ok => u.students = students
               /\ u.ok =>
                    \E s2 \in u.students :
                       /\ u.students \ {s2} = students \ {s}
                       /\ s2.id = s.id
                       /\ s2.created_at = s.created_at
                       /\ s2.name = (IF name = NoneStr THEN s.name ELSE name)
                       /\ s2.roll_no = (IF roll_no = NoneStr THEN s.roll_no ELSE roll_no)
                       /\ s2.iris_template =
                             (IF template = NoneTemplate THEN s.iris_template ELSE template)
               /\ (roll_no \in {NoneStr, s.roll_no}
                     /\ template \in {NoneTemplate, s.iris_template}) => u.ok
        /\ \A n \in ValidNames, r \in ValidRolls, u \in ValidIrisUploads :
              edit_student(students, attendance, nextId, nextMarkId, s.id, n, r, u[1], u[2])
                 .attendance = attendance

\* two subjects are enrolled, and an update of one that passes a new name,
\* omits the roll_no and passes the subject's own template succeeds
C8_Witness ==
    \E s \in students, o \in students, name \in NameArgs :
        /\ o.id # s.id
        /\ name # s.name
        /\ LET u == update_student(students, s.id, name, NoneStr, s.iris_template)
           IN /\ u.ok
              /\ \E s2 \in u.students :
                    s2.id = s.id /\ s2.name = name /\ s2.roll_no = s.roll_no

(* C9: a well-formed edit of an enrolled subject is rejected, with a       *)
(* duplicate message and no change, when the new roll_no is the roll_no of *)
(* another subject or the new template is the template of another subject; *)
(* otherwise it is accepted and the submitted values are written.          *)
C9_EditRevalidatesUniqueness ==
    \A s \in students, n \in ValidNames, r \in ValidRolls, u \in ValidIrisUploads :
        LET upd == u[1]
            img == u[2]
            out == edit_student(students, attendance, nextId, nextMarkId, s.id, n, r, upd, img)
            roll_no == strip(r)
            template == generate_iris_template(img)
            dupRoll == \E o \in students : o.id # s.id /\ o.roll_no = roll_no
            dupIris == upd /\ \E o \in students : o.id # s.id /\ o.iris_template = template
        IN /\ (dupRoll \/ dupIris) =>
                /\ ~out.resp.ok
                /\ out.resp.msg \in {"Roll number already exists",
                                     "iris pattern is already registered"}
                /\ out.students = students
           /\ dupIris => out.resp.msg = "iris pattern is already registered"
           /\ ~(dupRoll \/ dupIris) =>
                /\ out.resp.ok
                /\ \E s2 \in out.students :
                      /\ s2.id = s.id
                      /\ s2.name = strip(n)
                      /\ s2.roll_no = roll_no
                      /\ s2.iris_template = (IF upd THEN template ELSE s.iris_template)

\* two subjects are enrolled, and an edit that gives one the other's image
\* under its own roll_no is turned down
C9_Witness ==
    \E s \in students, o \in students, n \in ValidNames, r \in ValidRolls,
       img \in ValidImages :
        /\ o.id # s.id
        /\ strip(r) = s.roll_no
        /\ generate_iris_template(img) = o.iris_template
        /\ ~edit_student(students, attendance, nextId, nextMarkId, s.id, n, r, TRUE, img).resp.ok

(* C10: an enrollment, an edit, an update or a delete that is rejected     *)
(* leaves the subjects and the marks as they were; update_student and      *)
(* delete_student on an id that is not enrolled return                     *)
(* (False, "Student not found").                                           *)
C10_RejectedWritesChangeNothing ==
    /\ \A n \in NameFields, r \in RollFields, img \in Images :
        LET out == enroll(students, attendance, nextId, nextMarkId, now, n, r, img)
        IN ~out.resp.ok => /\ out.students = students
                           /\ out.attendance = attendance
    /\ \A id \in Ids :
        /\ \A n \in NameFields, r \in RollFields, u \in IrisUploads :
            LET out == edit_student(students, attendance, nextId, nextMarkId, id, n, r, u[1], u[2])
            IN ~out.resp.ok => /\ out.students = students
                               /\ out.attendance = attendance
        /\ \A name \in NameArgs \cup {NoneStr}, roll_no \in RollArgs \cup {NoneStr},
              template \in TemplateArgs \cup {NoneTemplate} :
            LET u == update_student(students, id, name, roll_no, template)
            IN /\ ~u.ok => u.students = students
               /\ id \notin EnrolledIds(students) =>
                     /\ ~u.ok
                     /\ u.message = "Student not found"
        /\ LET d == delete_student(students, attendance, id)
           IN /\ ~d.ok => /\ d.students = students
                          /\ d.attendance = attendance
              /\ id \notin EnrolledIds(students) =>
                    /\ ~d.ok
                    /\ d.message = "Student not found"

\* two subjects are enrolled and one is marked, and an update that gives one
\* the other's roll_no is rejected
C10_Witness ==
    /\ attendance # {}
    /\ \E s \in students, o \in students :
          /\ o.id # s.id
          /\ update_student(students, s.id, NoneStr, o.roll_no, NoneTemplate).message
                = "Roll number already exists"


(* C11: verifying an image whose template is that of an enrolled subject   *)
(* resolves to exactly that subject (no other enrolled subject has the     *)
(* template); it answers "Attendance marked" and adds the subject's mark   *)
(* for today when the subject has none today, and "Attendance already      *)
(* marked" with the ledger unchanged when it has one, also when repeated   *)
(* later the same day. Verifying an image whose template no enrolled       *)
(* subject has answers "Student not recognized" and leaves the ledger and  *)
(* the registry unchanged.                                                 *)
C11_VerifyResolvesSubject ==
    \A img \in ValidImages :
        LET template == generate_iris_template(img)
            owners == { s \in students : s.iris_template = template }
            today == DayOf(now)
            out == verify(students, attendance, nextId, nextMarkId, now, img)
        IN /\ Cardinality(owners) <= 1
           /\ out.students = students
           /\ owners = {} =>
                /\ ~out.resp.ok
                /\ out.resp.msg = "Student not recognized"
                /\ out.attendance = attendance
           /\ \A s \in owners :
                LET marked == \E m \in attendance : m.student_id = s.id /\ m.date = today
                IN /\ out.resp.ok
                   /\ out.resp.id = s.id
                   /\ out.resp.msg = (IF marked THEN "Attendance already marked"
                                                ELSE "Attendance marked")
                   /\ marked => out.attendance = attendance
                   /\ ~marked =>
                        \E m \in out.attendance :
                            /\ m \notin attendance
                            /\ out.attendance = attendance \cup {m}
                            /\ m.student_id = s.id
                            /\ m.date = today
                   /\ \A t \in Times : (t >= now /\ DayOf(t) = today) =>
                        LET again == verify(out.students, out.attendance, out.nextId,
                                            out.nextMarkId, t, img)
                        IN /\ again.resp.id = s.id
                           /\ again.resp.msg = "Attendance already marked"
                           /\ again.attendance = out.attendance

\* a subject's image resolves to it and is answered "Attendance already
\* marked", while another image matches nobody
C11_Witness ==
    \E s \in students, img \in ValidImages, other \in ValidImages :
        /\ generate_iris_template(img) = s.iris_template
        /\ LET out == verify(students, attendance, nextId, nextMarkId, now, img)
           IN out.resp.id = s.id /\ out.resp.msg = "Attendance already marked"
        /\ verify(students, attendance, nextId, nextMarkId, now, other).resp.msg
              = "Student not recognized"

(* C12: for every student_id, get_student_stats returns as total_attendance *)
(* the number of marks of that subject, as first_attendance the earliest   *)
(* and as last_attendance the latest date among them, whatever the order   *)
(* the marks were inserted in; for a subject with no marks it returns 0    *)
(* and None for both dates.                                                *)
C12_StatsCountFirstLast ==
    \A id \in Ids :
        LET stats == get_student_stats(attendance, id)
            marks == MarksOf(attendance, id)
        IN /\ stats.total_attendance = Cardinality(marks)
           /\ marks = {} =>
                /\ stats.total_attendance = 0
                /\ stats.first_attendance = NoneDate
                /\ stats.last_attendance = NoneDate
           /\ marks # {} =>
                /\ \E m \in marks : m.date = stats.first_attendance
                /\ \E m \in marks : m.date = stats.last_attendance
                /\ \A m \in marks : /\ stats.first_attendance <= m.date
                                     /\ m.date <= stats.last_attendance

\* an enrolled subject whose later mark was inserted first: the statistics
\* count both marks and give the date inserted last as the first; another
\* enrolled subject has no marks
C12_Witness ==
    \E s \in students, e \in students, m1 \in attendance, m2 \in attendance :
        /\ m1.student_id = s.id /\ m2.student_id = s.id
        /\ m1.id < m2.id /\ m2.date < m1.date
        /\ get_student_stats(attendance, s.id)
              = [total_attendance |-> 2, first_attendance |-> m2.date,
                 last_attendance |-> m1.date]
        /\ get_student_stats(attendance, e.id).first_attendance = NoneDate

\* what get_student_attendance_history(id, limit) returns in the current
\* state: rows of that subject's marks only, strictly newest date first, the
\* min(limit, number of marks) most recent dates
HistoryOk(id, limit) ==
    LET h == get_student_attendance_history(attendance, id, limit)
        marks == MarksOf(attendance, id)
        n == Cardinality(marks)
    IN /\ Len(h) = (IF limit < n THEN limit ELSE n)
       /\ \A i \in 1..Len(h) :
            \E m \in marks : h[i] = [date |-> m.date, status |-> m.status,
                                     timestamp |-> m.timestamp]
       /\ \A i \in 1..Len(h), j \in 1..Len(h) : i < j => h[i].date > h[j].date
       /\ \A m \in marks :
            \/ \E i \in 1..Len(h) : h[i].date = m.date
            \/ \A i \in 1..Len(h) : h[i].date > m.date

(* C13: for every student_id and every limit >= 0, the history returned by *)
(* get_student_attendance_history holds rows of that subject's marks only, *)
(* in strictly descending date order (so no date twice), and they are the  *)
(* min(limit, number of the subject's marks) most recent dates; and the    *)
(* call repeated after a step that neither marked nor deleted for that     *)
(* subject returns the same sequence.                                      *)
C13_HistoryNewestFirst ==
    /\ [](\A id \in Ids, limit \in LimitArgs : HistoryOk(id, limit))
    /\ [][\A id \in Ids, limit \in LimitArgs :
            MarksOf(attendance', id) = MarksOf(attendance, id) =>
                get_student_attendance_history(attendance', id, limit)
                    = get_student_attendance_history(attendance, id, limit)]_vars

\* an enrolled subject whose later mark was inserted first: the history
\* lists the later date first, and limit 1 cuts it to that date
C13_Witness ==
    \E s \in students, m1 \in attendance, m2 \in attendance :
        /\ m1.student_id = s.id /\ m2.student_id = s.id
        /\ m1.id < m2.id /\ m2.date < m1.date
        /\ LET h == get_student_attendance_history(attendance, s.id, DefaultLimit)
           IN Len(h) = 2 /\ h[1].date = m1.date /\ h[2].date = m2.date
        /\ LET h == get_student_attendance_history(attendance, s.id, 1)
           IN Len(h) = 1 /\ h[1].date = m1.date

\* the enrolled subjects that have a mark on the date
PresentOn(date) ==
    { s \in students : \E m \in attendance : m.student_id = s.id /\ m.date = date }

(* C14: for every date, get_attendance_by_date returns one entry for each  *)
(* enrolled subject that has a mark on that date (the subject's name and   *)
(* roll_no with the mark's status and timestamp) and no other entry, in    *)
(* ascending roll_no order; and the reports page shows a present count of  *)
(* at most the number of enrolled subjects and an absent count, total      *)
(* minus present, that is not negative.                                    *)
C14_ByDateOnePerEnrolled ==
    \A date \in Days :
        LET records == get_attendance_by_date(students, attendance, date)
            EntryOf(s) ==
                { i \in 1..Len(records) :
                    /\ records[i].roll_no = s.roll_no
                    /\ records[i].name = s.name
                    /\ \E m \in attendance :
                          /\ m.student_id = s.id /\ m.date = date
                          /\ records[i].status = m.status
                          /\ records[i].timestamp = m.timestamp }
        IN /\ \A s \in PresentOn(date) : Cardinality(EntryOf(s)) = 1
           /\ \A i \in 1..Len(records) : \E s \in PresentOn(date) : i \in EntryOf(s)
           /\ Len(records) = Cardinality(PresentOn(date))
           /\ \A i \in 1..Len(records), j \in 1..Len(records) :
                i < j => StrLess(records[i].roll_no, records[j].roll_no)
           /\ \A date_arg \in {date, NoneDate} :
                LET page == reports(students, attendance, now, date_arg)
                IN /\ page.total_students = Cardinality(students)
                   /\ page.present_today <= page.total_students
                   /\ page.absent_today = page.total_students - page.present_today
                   /\ page.absent_today >= 0

\* on one date an enrolled subject has a mark and so has an id that is not
\* enrolled; the date's records hold the enrolled subject's entry alone, and
\* the page counts one present
C14_Witness ==
    \E s \in students, m \in attendance, orphan \in attendance :
        /\ m.student_id = s.id
        /\ orphan.date = m.date
        /\ orphan.student_id \notin EnrolledIds(students)
        /\ Len(get_attendance_by_date(students, attendance, m.date)) = 1
        /\ get_attendance_by_date(students, attendance, m.date)[1].roll_no = s.roll_no
        /\ reports(students, attendance, now, m.date).present_today = 1

====
